---- MODULE Spec2Model ----
(***************************************************************************)
(* Model of law/target/local.py: LocalFileSystem (_unscheme, exists, isdir, *)
(* chmod, remove, mkdir, walk, _prepare_dst_dir, copy, move), the          *)
(* construction of a temporary LocalTarget and the                         *)
(* LocalFileTarget.localize protocol.                                      *)
(*                                                                         *)
(* The file system is a function from a finite universe of paths to nodes. *)
(* A path is a sequence of names, a name is a pair <<stem, extension>>, so *)
(* that os.path.join, dirname, basename and "path += is_tmp" are computed. *)
(* A call of the os / shutil library either takes effect or raises; the    *)
(* raised failure is named after the taxonomy of the specification.        *)
(***************************************************************************)
EXTENDS Integers, Sequences, FiniteSets, TLC

\* Longest file content (in blocks) the caller of localize may produce.
MaxLen == 2

None == "None"

(***************************************************************************)
(* Paths                                                                   *)
(***************************************************************************)
Name(stem, ext) == <<stem, ext>>

\* Candidate stems "luigi-tmp-{:09d}" drawn by random.randint.
TmpStems == {"luigi-tmp-0", "luigi-tmp-1"}

\* Extensions as stored in a name (with the dot), "" for no extension.
Exts == {"", ".x"}

Root == <<>>

\* The resolved temp root (tmp_dir argument or target.tmp_dir of the config).
tmp_dir == <<Name("tmp", "")>>

DataDir == <<Name("d", "")>>

join(dir, base) == Append(dir, base)

dirname(path) == IF path = Root THEN Root ELSE SubSeq(path, 1, Len(path) - 1)

basename(path) == path[Len(path)]

\* The real targets a session may be opened on: d/f and d/f.x
Targets == {join(DataDir, Name("f", e)) : e \in Exts}

TmpPaths == {join(tmp_dir, Name(s, e)) : s \in TmpStems, e \in Exts}

\* Where a file named like a temp target lands when the destination is a directory.
InsidePaths == {join(t, Name(s, basename(t)[2])) : t \in Targets, s \in TmpStems}

\* Where shutil.copy2 puts a file when the resolved destination is a directory too.
NestPaths == {join(q, basename(q)) : q \in InsidePaths}

\* What the OS makes of "http://d" when it is used as a path: a relative path,
\* resolved against the working directory (the root here).
SchemeDir == <<Name("http:", "")>>

SchemePaths == {SchemeDir, join(SchemeDir, Name("d", ""))}

Paths == {Root, tmp_dir, DataDir} \cup Targets \cup TmpPaths \cup InsidePaths
            \cup NestPaths \cup SchemePaths

(***************************************************************************)
(* Nodes and permissions                                                   *)
(***************************************************************************)
AbsentNode == [kind |-> "none", data |-> <<>>, perm |-> None]

DirNode(perm) == [kind |-> "dir", data |-> <<>>, perm |-> perm]

FileNode(data, perm) == [kind |-> "file", data |-> data, perm |-> perm]

\* Modes a new directory / file gets from the OS under the process umask 022.
UmaskedDirMode == "0755"

UmaskedFileMode == "0644"

\* Mode of the intermediate directories os.makedirs creates while the umask is 0.
OpenDirMode == "0777"

\* A directory whose mode lacks the write bit refuses create, unlink and rename.
ReadOnlyModes == {"0555"}

\* FileSystem.default_file_perm / default_directory_perm: None unless configured.
default_file_perm == None

default_directory_perm == None

VARIABLES
    fs,        \* the file system: Paths -> node
    call,      \* the last direct LocalFileSystem call and its result
    self,      \* path of the real target of the session
    sameVolume,\* whether temp root and real target are on one volume (rename works)
    pc,        \* position of the localize session
    mode,      \* localize argument mode
    is_tmp,    \* localize argument is_tmp (after the default was applied)
    perm,      \* localize argument perm
    dir_perm,  \* localize argument dir_perm
    tmp,       \* path of the temporary target, None before it is constructed
    exc,       \* failure propagating out of the session ("None" while none)
    callerExc, \* whether the caller's block raised
    fs0,       \* the file system when the session started
    atExit,    \* node at the temp path when the caller's block ended
    xpos,      \* blocks already transferred by the copy in progress
    seen,      \* what a concurrent reader of the real target's path has observed
    appended,  \* blocks the caller appended to the yielded target
    rewrote,   \* whether the caller truncated or removed the yielded target
    warned,    \* whether the "cannot move non-existing" warning was logged
    cand,      \* candidate path drawn by the temp-name loop
    dst,       \* destination resolved by _prepare_dst_dir for the transfer in progress
    moving,    \* whether the final move of the session was entered
    returned,  \* whether the caller's block returned normally
    umask,     \* the file mode creation mask of the process
    thr,       \* the mkdir call each thread of the process is in
    walk,      \* the walk generator: its arguments, queue and the entries it yielded
    ses,       \* the localize sessions that are open side by side
    req        \* the last direct call of exists, mkdir or copy with a raw path

fsVars == <<fs, call>>

sessionVars == <<self, sameVolume, pc, mode, is_tmp, perm, dir_perm, tmp, exc,
                 callerExc, fs0, atExit, xpos, seen, appended, rewrote, warned,
                 cand, dst, moving, returned>>

\* State of the calls made outside a single localize session.
auxVars == <<umask, thr, walk, ses, req>>

vars == <<fs, call, self, sameVolume, pc, mode, is_tmp, perm, dir_perm, tmp, exc,
          callerExc, fs0, atExit, xpos, seen, appended, rewrote, warned,
          cand, dst, moving, returned, umask, thr, walk, ses, req>>

(***************************************************************************)
(* LocalFileSystem: queries                                                *)
(***************************************************************************)
exists(f, path) == f[path].kind # "none"

isdir(f, path) == f[path].kind = "dir"

isfile(f, path) == f[path].kind = "file"

Writable(f, dir) == isdir(f, dir) /\ f[dir].perm \notin ReadOnlyModes

children(f, dir) == {q \in Paths : q # Root /\ dirname(q) = dir /\ exists(f, q)}

\* Result of an operation: the file system it leaves and the failure it raises.
R(f, e) == [fs |-> f, exc |-> e]

\* law.util.is_file_exists_error
is_file_exists_error(e) == e = "AlreadyExistsFailure"

(***************************************************************************)
(* The os calls the file system is built on                                *)
(***************************************************************************)
\* Why an entry cannot be created, replaced or removed in the directory of path.
EntryFailure(f, path) ==
    IF ~exists(f, dirname(path)) THEN "NotFoundFailure"
    ELSE IF ~isdir(f, dirname(path)) THEN "IOFailure"
    ELSE IF ~Writable(f, dirname(path)) THEN "PermissionFailure"
    ELSE None

os_chmod(f, path, p) ==
    IF exists(f, path) THEN R([f EXCEPT ![path].perm = p], None)
    ELSE R(f, "NotFoundFailure")

os_mkdir(f, path, m) ==
    IF exists(f, path) THEN R(f, "AlreadyExistsFailure")
    ELSE IF EntryFailure(f, path) # None THEN R(f, EntryFailure(f, path))
    ELSE R([f EXCEPT ![path] = DirNode(m)], None)

RECURSIVE os_makedirs(_, _, _, _)
\* os.makedirs(path, m): missing ancestors are created first, with mode im.
os_makedirs(f, path, m, im) ==
    IF path # Root /\ ~exists(f, dirname(path))
    THEN LET up == os_makedirs(f, dirname(path), im, im)
         IN  IF up.exc # None THEN up ELSE os_mkdir(up.fs, path, m)
    ELSE os_mkdir(f, path, m)

os_remove(f, path) ==
    IF ~exists(f, path) THEN R(f, "NotFoundFailure")
    ELSE IF isdir(f, path) THEN R(f, "IOFailure")
    ELSE IF EntryFailure(f, path) # None THEN R(f, EntryFailure(f, path))
    ELSE R([f EXCEPT ![path] = AbsentNode], None)

os_rmdir(f, path) ==
    IF ~exists(f, path) THEN R(f, "NotFoundFailure")
    ELSE IF ~isdir(f, path) THEN R(f, "IOFailure")
    ELSE IF children(f, path) # {} THEN R(f, "DirectoryNotEmptyFailure")
    ELSE IF path = Root \/ EntryFailure(f, path) # None
         THEN R(f, "PermissionFailure")
    ELSE R([f EXCEPT ![path] = AbsentNode], None)

RECURSIVE rmtree(_, _)
\* shutil.rmtree(path): entries first (stopping at the first failure), then path.
rmtree(f, path) ==
    IF children(f, path) = {} THEN os_rmdir(f, path)
    ELSE LET c == CHOOSE q \in children(f, path) : TRUE
             r == IF isdir(f, c) THEN rmtree(f, c) ELSE os_remove(f, c)
         IN  IF r.exc # None THEN r ELSE rmtree(r.fs, path)

(***************************************************************************)
(* LocalFileSystem: chmod, remove, mkdir                                   *)
(***************************************************************************)
chmod(f, path, p, silent) ==
    IF p # None /\ (~silent \/ exists(f, path))
    THEN os_chmod(f, path, p)
    ELSE R(f, None)

\* The removal remove performs: shutil.rmtree, os.rmdir or os.remove.
delete(f, path, recursive) ==
    IF isdir(f, path)
    THEN IF recursive THEN rmtree(f, path) ELSE os_rmdir(f, path)
    ELSE os_remove(f, path)

\* Faulty variant of remove: a missing path is a failure also when silent.
remove_loud(f, path, recursive, silent) == delete(f, path, recursive)

remove(f, path, recursive, silent) ==
    IF ~silent \/ exists(f, path)
    THEN delete(f, path, recursive)
    ELSE R(f, None)

\* The creation mkdir performs: (os.makedirs if recursive else os.mkdir)(*args).
\* With a perm the umask is 0 while the directories are created.
create(f, path, p, recursive) ==
    LET m  == IF p # None THEN p ELSE UmaskedDirMode
        im == IF p # None THEN OpenDirMode ELSE UmaskedDirMode
    IN  IF recursive THEN os_makedirs(f, path, m, im) ELSE os_mkdir(f, path, m)

\* Faulty variant of mkdir: a failure of the creation is raised also when silent.
mkdir_loud(f, path, p, recursive, silent) ==
    IF exists(f, path) THEN R(f, None)
    ELSE LET p2 == IF p = None THEN default_directory_perm ELSE p
             made == create(f, path, p2, recursive)
         IN  IF made.exc # None THEN made ELSE chmod(made.fs, path, p2, TRUE)

mkdir(f, path, p, recursive, silent) ==
    IF exists(f, path) THEN R(f, None)
    ELSE LET p2 == IF p = None THEN default_directory_perm ELSE p
             made == create(f, path, p2, recursive)
         IN  IF made.exc # None /\ ~silent /\ ~is_file_exists_error(made.exc)
             THEN made
             ELSE chmod(made.fs, path, p2, TRUE)

(***************************************************************************)
(* LocalFileSystem: _prepare_dst_dir and the pieces of copy and move       *)
(***************************************************************************)
prepare_dst_dir(f, src, d, p) ==
    IF isdir(f, d)
    THEN [fs |-> f, exc |-> None, dst |-> join(d, basename(src))]
    ELSE IF ~exists(f, dirname(d))
         THEN LET made == mkdir(f, dirname(d), p, TRUE, TRUE)
              IN  [fs |-> made.fs, exc |-> made.exc, dst |-> d]
         ELSE [fs |-> f, exc |-> None, dst |-> d]

\* shutil.copyfile, first part: open(src, "rb"), then open(dst, "wb").
copyfile_open(f, src, d) ==
    IF ~exists(f, src) THEN R(f, "NotFoundFailure")
    ELSE IF isdir(f, src) \/ isdir(f, d) THEN R(f, "IOFailure")
    ELSE IF isfile(f, d) THEN R([f EXCEPT ![d].data = <<>>], None)
    ELSE IF EntryFailure(f, d) # None THEN R(f, EntryFailure(f, d))
    ELSE R([f EXCEPT ![d] = FileNode(<<>>, UmaskedFileMode)], None)

\* shutil.copyfile, the loop: block n of src is written at the end of dst.
copyfile_block(f, src, d, n) == [f EXCEPT ![d].data = Append(@, f[src].data[n])]

\* shutil.copystat: the mode of src is given to dst.
copystat(f, src, d) == [f EXCEPT ![d].perm = f[src].perm]

\* The end of copy and move: self.chmod(dst, perm or default_file_perm).
set_permissions(f, d, p) ==
    chmod(f, d, IF p = None THEN default_file_perm ELSE p, TRUE)

\* Faulty variant of CanRename: the move never renames, it always copies and unlinks.
CanRename_never(f, src, d, sameVol) == FALSE

\* Whether os.rename(src, dst) succeeds; shutil.move copies and unlinks otherwise.
CanRename(f, src, d, sameVol) ==
    /\ sameVol
    /\ exists(f, src)
    /\ ~isdir(f, d)
    /\ EntryFailure(f, src) = None
    /\ EntryFailure(f, d) = None

os_rename(f, src, d) == [f EXCEPT ![d] = f[src], ![src] = AbsentNode]

(***************************************************************************)
(* Construction of a temporary target, LocalTarget.__init__ with is_tmp    *)
(***************************************************************************)
\* target.tmp_dir_permission of the config: unset.
tmp_dir_permission == None

\* FileSystemTarget.ext(n=1): the extension of the basename, without its dot.
ext(path) == IF basename(path)[2] = ".x" THEN "x" ELSE ""

\* "is_tmp might be a file extension": a dot is put in front when it is missing.
Dotted(e) == IF e = "x" THEN ".x" ELSE e

\* path += is_tmp, for is_tmp = e or True (e = "" stands for True).
WithExt(path, e) ==
    IF e = "" THEN path
    ELSE join(dirname(path), Name(basename(path)[1], basename(path)[2] \o Dotted(e)))

(***************************************************************************)
(* Initial states                                                          *)
(***************************************************************************)
\* Content of the real target before the session, and of files left in the temp root.
OldData == <<"a">>

LeftData == <<"z">>

\* Most files left in the temp root by earlier sessions.
MaxLeft == 1

\* Blocks the caller of localize writes.
Blocks == {"b"}

\* What may be at the real target's path t and at its parent directory.
DataStates == {"noparent", "parentfile", "absent", "file", "readonly", "dir"}

DataNode(path, t, d) ==
    IF path = DataDir
    THEN CASE d = "noparent"   -> AbsentNode
           [] d = "parentfile" -> FileNode(OldData, UmaskedFileMode)
           [] d = "readonly"   -> DirNode("0555")
           [] OTHER            -> DirNode(UmaskedDirMode)
    ELSE IF path = t
    THEN CASE d \in {"file", "readonly"} -> FileNode(OldData, UmaskedFileMode)
           [] d = "dir"                  -> DirNode(UmaskedDirMode)
           [] OTHER                      -> AbsentNode
    ELSE AbsentNode

\* The file system with real target t in state d, the temp root present or not
\* and the files left (a subset of TmpPaths) in it.
InitialFS(t, d, hasTmp, left) ==
    [path \in Paths |->
        IF path = Root THEN DirNode(UmaskedDirMode)
        ELSE IF path = tmp_dir
             THEN IF hasTmp THEN DirNode(UmaskedDirMode) ELSE AbsentNode
        ELSE IF path \in TmpPaths
             THEN IF path \in left THEN FileNode(LeftData, UmaskedFileMode)
                  ELSE AbsentNode
        ELSE DataNode(path, t, d)]

\* The value of tmp, cand and dst while there is none.
NoPath == <<Name("nopath", "")>>

\* The umask the process runs under.
ProcessUmask == "022"

\* The threads of the process that may call mkdir.
Threads == {1, 2}

\* A thread that has not called mkdir.
IdleThread ==
    [pc |-> "idle", path |-> Root, perm |-> None, recursive |-> FALSE,
     silent |-> FALSE, orig |-> None, exc |-> None, masks |-> {}]

\* The walk generator before walk is called.
IdleWalk ==
    [pc |-> "idle", path |-> Root, max_depth |-> -1, search_dirs |-> <<>>,
     out |-> <<>>]

\* The localize sessions that may be open at the same time.
Sessions == {1, 2}

\* A session that was not opened.
IdleSession ==
    [pc |-> "idle", self |-> NoPath, cand |-> NoPath, tmp |-> NoPath,
     wrote |-> FALSE]

\* No direct call with a raw path was made.
NoReq ==
    [op |-> "none", scheme |-> "", src |-> Root, dst |-> Root, ret |-> NoPath,
     value |-> None, exc |-> None, before |-> [path \in Paths |-> AbsentNode]]

Init ==
    /\ self \in Targets
    /\ sameVolume \in BOOLEAN
    /\ \E d \in DataStates, hasTmp \in BOOLEAN, left \in SUBSET TmpPaths :
          /\ (~hasTmp => left = {})
          /\ Cardinality(left) <= MaxLeft
          /\ fs = InitialFS(self, d, hasTmp, left)
    /\ call = [op |-> "none", path |-> Root, perm |-> None, recursive |-> FALSE,
               silent |-> FALSE, before |-> fs, exc |-> None]
    /\ pc = "idle"
    /\ mode = None
    /\ is_tmp = FALSE
    /\ perm = None
    /\ dir_perm = None
    /\ tmp = NoPath
    /\ exc = None
    /\ callerExc = FALSE
    /\ fs0 = fs
    /\ atExit = AbsentNode
    /\ xpos = 0
    /\ seen = {}
    /\ appended = <<>>
    /\ rewrote = FALSE
    /\ warned = FALSE
    /\ cand = NoPath
    /\ dst = NoPath
    /\ moving = FALSE
    /\ returned = FALSE
    /\ umask = ProcessUmask
    /\ thr = [t \in Threads |-> IdleThread]
    /\ walk = IdleWalk
    /\ ses = [s \in Sessions |-> IdleSession]
    /\ req = NoReq

(***************************************************************************)
(* LocalFileTarget.localize                                                *)
(***************************************************************************)
\* Faulty variant of ValidMode: the mode is not validated.
ValidMode_any(m) == TRUE

ValidMode(m) == m \in {"r", "w", "a"}

\* Faulty variant of yielded: the real target is handed out although staging was asked for.
yielded_real == self

\* The target handed to the caller's block.
yielded == IF is_tmp THEN tmp ELSE self

\* The node at the real target's path when the session started.
pre == fs0[self]

\* What a reader sees of a node: whether it is there, and its content.
View(n) == [kind |-> n.kind, data |-> n.data]

\* The reader of the real target's path polls after every step of the session, so
\* that seen holds every state of that path a concurrent reader can come across.
Observed(f) == seen \cup {View(f[self])}

\* Leave the session with failure e before the try block is entered.
Raise(e) == exc' = e /\ pc' = "done"

\* Leave the try block with failure e: the finally clause runs next.
RaiseInTry(e) == exc' = e /\ pc' = "cleanup"

Localize(m, t, p, dp) ==
    /\ pc = "idle"
    /\ mode' = m
    /\ is_tmp' = IF t = "default" THEN m \in {"w", "a"} ELSE t = "yes"
    /\ perm' = p
    /\ dir_perm' = dp
    /\ fs0' = fs
    /\ IF ~ValidMode(m) THEN Raise("InvalidModeFailure")
       ELSE /\ exc' = None
            /\ pc' = IF is_tmp' THEN "mktmp" ELSE IF m = "r" THEN "body" ELSE "touch"
    /\ UNCHANGED <<fs, call, self, sameVolume, tmp, callerExc, atExit, xpos, appended, rewrote, warned, cand, dst, moving,
                   returned>>
    /\ UNCHANGED auxVars
    /\ seen' = Observed(fs')

\* LocalTarget.__init__: the temp root is created when it does not exist.
MakeTmpDir ==
    /\ pc = "mktmp"
    /\ fs' = IF ~exists(fs, tmp_dir)
             THEN mkdir(fs, tmp_dir, tmp_dir_permission, TRUE, TRUE).fs
             ELSE fs
    /\ pc' = "pick"
    /\ UNCHANGED <<call, self, sameVolume, mode, is_tmp, perm, dir_perm, tmp, exc,
                   callerExc, fs0, atExit, xpos, appended, rewrote, warned,
                   cand, dst, moving, returned>>
    /\ UNCHANGED auxVars
    /\ seen' = Observed(fs')

\* One random candidate name in the temp root.
DrawName(s) ==
    /\ pc = "pick"
    /\ cand' = join(tmp_dir, Name(s, ""))
    /\ pc' = "probe"
    /\ UNCHANGED <<fs, call, self, sameVolume, mode, is_tmp, perm, dir_perm, tmp, exc,
                   callerExc, fs0, atExit, xpos, appended, rewrote, warned,
                   dst, moving, returned>>
    /\ UNCHANGED auxVars
    /\ seen' = Observed(fs')

\* Faulty variant of NewTmpPath: the temporary target is put at the real target's path.
NewTmpPath_self(c, t) == t

\* The path the loop settles on, for candidate c and real target t.
NewTmpPath(c, t) == WithExt(c, ext(t))

\* "if not fs.exists(path): break", then the extension is appended.
ProbeName ==
    /\ pc = "probe"
    /\ IF exists(fs, cand)
       THEN pc' = "pick" /\ tmp' = tmp
       ELSE pc' = "built" /\ tmp' = NewTmpPath(cand, self)
    /\ UNCHANGED <<fs, call, self, sameVolume, mode, is_tmp, perm, dir_perm, exc,
                   callerExc, fs0, atExit, xpos, appended, rewrote, warned,
                   cand, dst, moving, returned>>
    /\ UNCHANGED auxVars
    /\ seen' = Observed(fs')

\* Faulty variant of NeedsCopy: the copy in append mode is left out.
NeedsCopy_read(f, m, t) == m = "r"

\* "copy in append mode" (and always in read mode).
NeedsCopy(f, m, t) == m = "r" \/ (m = "a" /\ exists(f, t))

TmpBuilt ==
    /\ pc = "built"
    /\ pc' = IF NeedsCopy(fs, mode, self) THEN "copy_prepare" ELSE "body"
    /\ UNCHANGED <<fs, call, self, sameVolume, mode, is_tmp, perm, dir_perm, tmp, exc,
                   callerExc, fs0, atExit, xpos, appended, rewrote, warned,
                   cand, dst, moving, returned>>
    /\ UNCHANGED auxVars
    /\ seen' = Observed(fs')

\* self.copy_to_local(tmp): fs.copy(self.path, tmp.path), step by step.
CopyPrepare ==
    /\ pc = "copy_prepare"
    /\ LET r == prepare_dst_dir(fs, self, tmp, None)
       IN  /\ fs' = r.fs
           /\ dst' = r.dst
           /\ IF r.exc # None THEN Raise(r.exc) ELSE pc' = "copy_open" /\ exc' = exc
    /\ UNCHANGED <<call, self, sameVolume, mode, is_tmp, perm, dir_perm, tmp,
                   callerExc, fs0, atExit, xpos, appended, rewrote, warned,
                   cand, moving, returned>>
    /\ UNCHANGED auxVars
    /\ seen' = Observed(fs')

CopyOpen ==
    /\ pc = "copy_open"
    /\ LET r == copyfile_open(fs, self, dst)
       IN  /\ fs' = r.fs
           /\ IF r.exc # None THEN Raise(r.exc) ELSE pc' = "copy_data" /\ exc' = exc
    /\ xpos' = 0
    /\ UNCHANGED <<call, self, sameVolume, mode, is_tmp, perm, dir_perm, tmp,
                   callerExc, fs0, atExit, appended, rewrote, warned,
                   cand, dst, moving, returned>>
    /\ UNCHANGED auxVars
    /\ seen' = Observed(fs')

CopyBlock ==
    /\ pc = "copy_data"
    /\ xpos < Len(fs[self].data)
    /\ fs' = copyfile_block(fs, self, dst, xpos + 1)
    /\ xpos' = xpos + 1
    /\ UNCHANGED <<call, self, sameVolume, pc, mode, is_tmp, perm, dir_perm, tmp, exc,
                   callerExc, fs0, atExit, appended, rewrote, warned,
                   cand, dst, moving, returned>>
    /\ UNCHANGED auxVars
    /\ seen' = Observed(fs')

\* The write of a block fails (the volume of the temp root is full).
CopyFault ==
    /\ pc = "copy_data"
    /\ xpos < Len(fs[self].data)
    /\ Raise("IOFailure")
    /\ UNCHANGED <<fs, call, self, sameVolume, mode, is_tmp, perm, dir_perm, tmp,
                   callerExc, fs0, atExit, xpos, appended, rewrote, warned,
                   cand, dst, moving, returned>>
    /\ UNCHANGED auxVars
    /\ seen' = Observed(fs')

CopyFinish ==
    /\ pc = "copy_data"
    /\ xpos = Len(fs[self].data)
    /\ LET r == set_permissions(copystat(fs, self, dst), dst, None)
       IN  /\ fs' = r.fs
           /\ IF r.exc # None THEN Raise(r.exc) ELSE pc' = "body" /\ exc' = exc
    /\ UNCHANGED <<call, self, sameVolume, mode, is_tmp, perm, dir_perm, tmp,
                   callerExc, fs0, atExit, xpos, appended, rewrote, warned,
                   cand, dst, moving, returned>>
    /\ UNCHANGED auxVars
    /\ seen' = Observed(fs')

(***************************************************************************)
(* The caller's block, working on the yielded target                       *)
(***************************************************************************)
\* Whether open(path, "w") or open(path, "a") succeeds.
CanOpenForWrite(f, path) ==
    \/ isfile(f, path)
    \/ ~exists(f, path) /\ EntryFailure(f, path) = None

\* open(path, "w"): the file is created, or cut to length 0.
CallerTruncate ==
    /\ pc = "body"
    /\ CanOpenForWrite(fs, yielded)
    /\ fs' = [fs EXCEPT ![yielded] =
                 IF isfile(fs, yielded) THEN [@ EXCEPT !.data = <<>>]
                 ELSE FileNode(<<>>, UmaskedFileMode)]
    /\ rewrote' = TRUE
    /\ appended' = <<>>
    /\ UNCHANGED <<call, self, sameVolume, pc, mode, is_tmp, perm, dir_perm, tmp, exc,
                   callerExc, fs0, atExit, xpos, warned, cand, dst, moving, returned>>
    /\ UNCHANGED auxVars
    /\ seen' = Observed(fs')

\* A block is written at the end of the file (created when it is missing).
CallerAppend(b) ==
    /\ pc = "body"
    /\ CanOpenForWrite(fs, yielded)
    /\ Len(fs[yielded].data) < MaxLen
    /\ fs' = [fs EXCEPT ![yielded] =
                 IF isfile(fs, yielded) THEN [@ EXCEPT !.data = Append(@, b)]
                 ELSE FileNode(<<b>>, UmaskedFileMode)]
    /\ appended' = Append(appended, b)
    /\ UNCHANGED <<call, self, sameVolume, pc, mode, is_tmp, perm, dir_perm, tmp, exc,
                   callerExc, fs0, atExit, xpos, rewrote, warned, cand, dst,
                   moving, returned>>
    /\ UNCHANGED auxVars
    /\ seen' = Observed(fs')

\* The temp root loses its write bit while the session is open: fs.chmod(tmp_dir, 0555).
CallerChmodTmpDir ==
    /\ pc = "body"
    /\ is_tmp
    /\ Writable(fs, tmp_dir)
    /\ fs' = chmod(fs, tmp_dir, "0555", TRUE).fs
    /\ UNCHANGED <<call, self, sameVolume, pc, mode, is_tmp, perm, dir_perm, tmp, exc,
                   callerExc, fs0, atExit, xpos, appended, rewrote, warned,
                   cand, dst, moving, returned>>
    /\ UNCHANGED auxVars
    /\ seen' = Observed(fs')

\* Where control goes when the caller's block raises: the finally clause of the
\* temp branches, else straight out of localize.
CallerRaise ==
    /\ pc = "body"
    /\ callerExc' = TRUE
    /\ IF is_tmp THEN RaiseInTry("CallerFailure") ELSE Raise("CallerFailure")
    /\ UNCHANGED <<fs, call, self, sameVolume, mode, is_tmp, perm, dir_perm, tmp,
                   fs0, atExit, xpos, appended, rewrote, warned, cand, dst,
                   moving, returned>>
    /\ UNCHANGED auxVars
    /\ seen' = Observed(fs')

CallerReturn ==
    /\ pc = "body"
    /\ atExit' = fs[yielded]
    /\ returned' = TRUE
    /\ pc' = IF is_tmp THEN (IF mode = "r" THEN "cleanup" ELSE "move_check")
             ELSE (IF mode = "r" THEN "done" ELSE "inplace_chmod")
    /\ UNCHANGED <<fs, call, self, sameVolume, mode, is_tmp, perm, dir_perm, tmp, exc,
                   callerExc, fs0, xpos, appended, rewrote, warned, cand, dst,
                   moving>>
    /\ UNCHANGED auxVars
    /\ seen' = Observed(fs')

(***************************************************************************)
(* After the block: move back, cleanup                                     *)
(***************************************************************************)
\* "if tmp.exists(): tmp.move_to_local(self, ...) else: logger.warning(...)"
MoveCheck ==
    /\ pc = "move_check"
    /\ IF exists(fs, tmp)
       THEN pc' = "move_prepare" /\ moving' = TRUE /\ warned' = warned
       ELSE pc' = "cleanup" /\ moving' = moving /\ warned' = TRUE
    /\ UNCHANGED <<fs, call, self, sameVolume, mode, is_tmp, perm, dir_perm, tmp, exc,
                   callerExc, fs0, atExit, xpos, appended, rewrote, cand, dst, returned>>
    /\ UNCHANGED auxVars
    /\ seen' = Observed(fs')

\* fs.move(tmp.path, self.path, perm, dir_perm): _prepare_dst_dir
MovePrepare ==
    /\ pc = "move_prepare"
    /\ LET r == prepare_dst_dir(fs, tmp, self, dir_perm)
       IN  /\ fs' = r.fs
           /\ dst' = r.dst
           /\ IF r.exc # None THEN RaiseInTry(r.exc)
              ELSE pc' = "move_rename" /\ exc' = exc
    /\ UNCHANGED <<call, self, sameVolume, mode, is_tmp, perm, dir_perm, tmp,
                   callerExc, fs0, atExit, xpos, appended, rewrote, warned,
                   cand, moving, returned>>
    /\ UNCHANGED auxVars
    /\ seen' = Observed(fs')

\* shutil.move: os.rename, and on its failure copy2 followed by os.unlink.
MoveRename ==
    /\ pc = "move_rename"
    /\ IF CanRename(fs, tmp, dst, sameVolume)
       THEN fs' = os_rename(fs, tmp, dst) /\ pc' = "move_chmod"
       ELSE fs' = fs /\ pc' = "move_open"
    /\ UNCHANGED <<call, self, sameVolume, mode, is_tmp, perm, dir_perm, tmp, exc,
                   callerExc, fs0, atExit, xpos, appended, rewrote, warned,
                   cand, dst, moving, returned>>
    /\ UNCHANGED auxVars
    /\ seen' = Observed(fs')

MoveOpen ==
    /\ pc = "move_open"
    /\ LET r == copyfile_open(fs, tmp, dst)
       IN  /\ fs' = r.fs
           /\ IF r.exc # None THEN RaiseInTry(r.exc)
              ELSE pc' = "move_data" /\ exc' = exc
    /\ xpos' = 0
    /\ UNCHANGED <<call, self, sameVolume, mode, is_tmp, perm, dir_perm, tmp,
                   callerExc, fs0, atExit, appended, rewrote, warned,
                   cand, dst, moving, returned>>
    /\ UNCHANGED auxVars
    /\ seen' = Observed(fs')

MoveBlock ==
    /\ pc = "move_data"
    /\ xpos < Len(fs[tmp].data)
    /\ fs' = copyfile_block(fs, tmp, dst, xpos + 1)
    /\ xpos' = xpos + 1
    /\ UNCHANGED <<call, self, sameVolume, pc, mode, is_tmp, perm, dir_perm, tmp, exc,
                   callerExc, fs0, atExit, appended, rewrote, warned,
                   cand, dst, moving, returned>>
    /\ UNCHANGED auxVars
    /\ seen' = Observed(fs')

\* The write of a block fails (the volume of the real target is full).
MoveFault ==
    /\ pc = "move_data"
    /\ xpos < Len(fs[tmp].data)
    /\ RaiseInTry("IOFailure")
    /\ UNCHANGED <<fs, call, self, sameVolume, mode, is_tmp, perm, dir_perm, tmp,
                   callerExc, fs0, atExit, xpos, appended, rewrote, warned,
                   cand, dst, moving, returned>>
    /\ UNCHANGED auxVars
    /\ seen' = Observed(fs')

MoveStat ==
    /\ pc = "move_data"
    /\ xpos = Len(fs[tmp].data)
    /\ fs' = copystat(fs, tmp, dst)
    /\ pc' = "move_unlink"
    /\ UNCHANGED <<call, self, sameVolume, mode, is_tmp, perm, dir_perm, tmp, exc,
                   callerExc, fs0, atExit, xpos, appended, rewrote, warned,
                   cand, dst, moving, returned>>
    /\ UNCHANGED auxVars
    /\ seen' = Observed(fs')

MoveUnlink ==
    /\ pc = "move_unlink"
    /\ LET r == os_remove(fs, tmp)
       IN  /\ fs' = r.fs
           /\ IF r.exc # None THEN RaiseInTry(r.exc)
              ELSE pc' = "move_chmod" /\ exc' = exc
    /\ UNCHANGED <<call, self, sameVolume, mode, is_tmp, perm, dir_perm, tmp,
                   callerExc, fs0, atExit, xpos, appended, rewrote, warned,
                   cand, dst, moving, returned>>
    /\ UNCHANGED auxVars
    /\ seen' = Observed(fs')

MoveChmod ==
    /\ pc = "move_chmod"
    /\ LET r == set_permissions(fs, dst, perm)
       IN  /\ fs' = r.fs
           /\ IF r.exc # None THEN RaiseInTry(r.exc)
              ELSE pc' = "cleanup" /\ exc' = exc
    /\ UNCHANGED <<call, self, sameVolume, mode, is_tmp, perm, dir_perm, tmp,
                   callerExc, fs0, atExit, xpos, appended, rewrote, warned,
                   cand, dst, moving, returned>>
    /\ UNCHANGED auxVars
    /\ seen' = Observed(fs')

\* The failure that leaves a finally clause: the one the clause itself raises,
\* else the one that was propagating when it was entered.
AfterFinally(pending, raised) == IF raised # None THEN raised ELSE pending

\* "finally: tmp.remove()"
Cleanup ==
    /\ pc = "cleanup"
    /\ LET r == remove(fs, tmp, TRUE, TRUE)
       IN  /\ fs' = r.fs
           /\ exc' = AfterFinally(exc, r.exc)
    /\ pc' = "done"
    /\ UNCHANGED <<call, self, sameVolume, mode, is_tmp, perm, dir_perm, tmp,
                   callerExc, fs0, atExit, xpos, appended, rewrote, warned,
                   cand, dst, moving, returned>>
    /\ UNCHANGED auxVars
    /\ seen' = Observed(fs')

(***************************************************************************)
(* Write and append without temp staging                                   *)
(***************************************************************************)
\* self.parent.touch(perm=dir_perm): fs.mkdir(parent.path, perm=dir_perm)
Touch ==
    /\ pc = "touch"
    /\ LET r == mkdir(fs, dirname(self), dir_perm, TRUE, TRUE)
       IN  /\ fs' = r.fs
           /\ IF r.exc # None THEN Raise(r.exc) ELSE pc' = "body" /\ exc' = exc
    /\ UNCHANGED <<call, self, sameVolume, mode, is_tmp, perm, dir_perm, tmp,
                   callerExc, fs0, atExit, xpos, appended, rewrote, warned,
                   cand, dst, moving, returned>>
    /\ UNCHANGED auxVars
    /\ seen' = Observed(fs')

\* "if self.exists(): self.chmod(perm)"
InplaceChmod ==
    /\ pc = "inplace_chmod"
    /\ LET r == IF exists(fs, self) THEN chmod(fs, self, perm, TRUE) ELSE R(fs, None)
       IN  /\ fs' = r.fs
           /\ exc' = r.exc
    /\ pc' = "done"
    /\ UNCHANGED <<call, self, sameVolume, mode, is_tmp, perm, dir_perm, tmp,
                   callerExc, fs0, atExit, xpos, appended, rewrote, warned,
                   cand, dst, moving, returned>>
    /\ UNCHANGED auxVars
    /\ seen' = Observed(fs')

Modes == {"r", "w", "a", "x"}

Next ==
    \/ \E m \in Modes, t \in {"default", "yes", "no"},
          p \in {None, "0600"}, dp \in {None, "0700"} : Localize(m, t, p, dp)
    \/ MakeTmpDir
    \/ \E s \in TmpStems : DrawName(s)
    \/ ProbeName
    \/ TmpBuilt
    \/ CopyPrepare
    \/ CopyOpen
    \/ CopyBlock
    \/ CopyFault
    \/ CopyFinish
    \/ CallerTruncate
    \/ \E b \in Blocks : CallerAppend(b)
    \/ CallerChmodTmpDir
    \/ CallerRaise
    \/ CallerReturn
    \/ MoveCheck
    \/ MovePrepare
    \/ MoveRename
    \/ MoveOpen
    \/ MoveBlock
    \/ MoveFault
    \/ MoveStat
    \/ MoveUnlink
    \/ MoveChmod
    \/ Cleanup
    \/ Touch
    \/ InplaceChmod

Spec == Init /\ [][Next]_vars

(***************************************************************************)
(* Direct calls of LocalFileSystem.mkdir and LocalFileSystem.remove: one   *)
(* call, with any arguments, on any of the initial file systems.           *)
(***************************************************************************)
MkdirCall(path, p, recursive, silent) ==
    /\ pc = "idle"
    /\ call.op = "none"
    /\ LET r == mkdir(fs, path, p, recursive, silent)
       IN  /\ fs' = r.fs
           /\ call' = [op |-> "mkdir", path |-> path, perm |-> p,
                       recursive |-> recursive, silent |-> silent,
                       before |-> fs, exc |-> r.exc]
    /\ UNCHANGED sessionVars
    /\ UNCHANGED auxVars

RemoveCall(path, recursive, silent) ==
    /\ pc = "idle"
    /\ call.op = "none"
    /\ LET r == remove(fs, path, recursive, silent)
       IN  /\ fs' = r.fs
           /\ call' = [op |-> "remove", path |-> path, perm |-> None,
                       recursive |-> recursive, silent |-> silent,
                       before |-> fs, exc |-> r.exc]
    /\ UNCHANGED sessionVars
    /\ UNCHANGED auxVars

NextFS ==
    \/ \E path \in Paths \ {Root}, p \in {None, "0700"}, recursive \in BOOLEAN,
          silent \in BOOLEAN : MkdirCall(path, p, recursive, silent)
    \/ \E path \in Paths \ {Root}, recursive \in BOOLEAN, silent \in BOOLEAN :
          RemoveCall(path, recursive, silent)

SpecFS == Init /\ [][NextFS]_vars

(***************************************************************************)
(* Properties of the localize session (checked under Spec)                 *)
(***************************************************************************)
Succeeded == pc = "done" /\ exc = None

Failed == pc = "done" /\ exc # None

\* The final move is one os.rename: temp root and real target are on one volume
\* and the directory of the real target, when it is there, has its write bit.
RenameApplies ==
    /\ sameVolume
    /\ exists(fs0, dirname(self)) => Writable(fs0, dirname(self))

\* C1 (as claimed): a reader of the real target's path, during any write-mode
\* session with temp staging that succeeds, sees only the state the path had
\* before the session or the state it has after it.
C1_ReaderSeesOldOrNew ==
    (Succeeded /\ mode = "w" /\ is_tmp)
        => seen \subseteq {View(pre), View(fs[self])}

\* C1 (amended): the same, for the sessions whose final move is one os.rename
\* (same volume, writable directory of the real target).
C1_ReaderSeesOldOrNewOnRename ==
    (Succeeded /\ mode = "w" /\ is_tmp /\ RenameApplies)
        => seen \subseteq {View(pre), View(fs[self])}

\* C1 witness: such a session replaced an existing file by two new blocks and
\* the reader saw both the old and the new file.
C1_Witness ==
    /\ Succeeded /\ mode = "w" /\ is_tmp /\ RenameApplies
    /\ isfile(fs0, self) /\ isfile(fs, self)
    /\ Len(fs[self].data) >= 2
    /\ seen = {View(pre), View(fs[self])}
    /\ View(pre) # View(fs[self])

\* C2 (as claimed): once a session that constructed a temp target has exited, on
\* whatever path, the temp path does not exist.
C2_NoTempLeftBehind ==
    (pc = "done" /\ tmp # NoPath) => ~exists(fs, tmp)

\* C3 (as claimed): after a write- or append-mode session that failed, with or
\* without temp staging, the real target's path is as it was at the start.
C3_FailedWriteLeavesTarget ==
    (Failed /\ mode \in {"w", "a"}) => View(fs[self]) = View(pre)

\* C3 (amended): after a write- or append-mode session with temp staging that
\* failed before its final move was entered (the append copy failed or the
\* caller's block raised), the real target's path is as it was at the start.
C3_FailedStagedWriteLeavesTarget ==
    (Failed /\ mode \in {"w", "a"} /\ is_tmp /\ ~moving)
        => View(fs[self]) = View(pre)

\* C3 witness: the caller wrote a block to the temp target of an existing file
\* and then raised.
C3_Witness ==
    /\ Failed /\ mode \in {"w", "a"} /\ is_tmp /\ ~moving
    /\ callerExc
    /\ appended # <<>>
    /\ isfile(fs0, self)
    /\ View(fs[self]) = View(pre)

\* C4 (as claimed): after a successful write-mode session with temp staging whose
\* temp target existed at scope exit, the real target's path is a file with the
\* temp target's content and the requested perm, whatever was at the path before.
C4_TargetHoldsTempContent ==
    (Succeeded /\ mode = "w" /\ is_tmp /\ atExit.kind # "none")
        => /\ isfile(fs, self)
           /\ fs[self].data = atExit.data
           /\ perm # None => fs[self].perm = perm

\* C5: a successful append-mode session with temp staging on an existing file A,
\* in which the caller only appended the blocks B, leaves the file A followed by B.
C5_AppendKeepsOldContent ==
    (Succeeded /\ mode = "a" /\ is_tmp /\ isfile(fs0, self) /\ ~rewrote)
        => /\ isfile(fs, self)
           /\ fs[self].data = fs0[self].data \o appended

\* C5 witness: the file <<a>> became <<a, b>>.
C5_Witness ==
    /\ Succeeded /\ mode = "a" /\ is_tmp /\ isfile(fs0, self) /\ ~rewrote
    /\ appended = <<"b">>
    /\ fs[self].data = <<"a", "b">>

\* C6 (as claimed): when the caller's block raised, the caller's failure is the
\* one that leaves the session, also when the cleanup fails.
C6_CallerFailurePropagates ==
    (pc = "done" /\ callerExc) => exc = "CallerFailure"

\* C7: a session opened with a mode other than r, w, a ends at once with the
\* invalid-mode failure, the file system being as it was.
C7_InvalidModeBeforeAnyAction ==
    (pc # "idle" /\ mode \notin {"r", "w", "a"})
        => /\ pc = "done"
           /\ exc = "InvalidModeFailure"
           /\ fs = fs0
           /\ tmp = NoPath

\* C7 witness: a session was opened with mode x.
C7_Witness ==
    pc = "done" /\ mode = "x" /\ exc = "InvalidModeFailure"

\* C8 (as claimed): the path a new temporary target is given, extension included,
\* does not exist when the constructor returns it.
C8_TmpPathIsFresh ==
    pc = "built" => ~exists(fs, tmp)

(***************************************************************************)
(* Properties of mkdir and remove (checked under SpecFS)                   *)
(***************************************************************************)
\* C9 (as claimed): mkdir(path, silent=False) on a path that exists raises the
\* already-exists failure and leaves the file system as it was.
C9_MkdirExistingRaises ==
    (call.op = "mkdir" /\ ~call.silent /\ exists(call.before, call.path))
        => /\ call.exc = "AlreadyExistsFailure"
           /\ fs = call.before

\* C10 (as claimed): with silent=True, a failure of the creation other than
\* "already exists", and any failure of the removal of a path that is there,
\* reaches the caller.
C10_SilentSwallowsOnlyItsCase ==
    /\ (call.op = "mkdir" /\ call.silent /\ ~exists(call.before, call.path))
          => LET p2 == IF call.perm = None THEN default_directory_perm ELSE call.perm
                 made == create(call.before, call.path, p2, call.recursive)
             IN  made.exc \notin {None, "AlreadyExistsFailure"}
                     => call.exc = made.exc
    /\ (call.op = "remove" /\ call.silent /\ exists(call.before, call.path))
          => LET gone == delete(call.before, call.path, call.recursive)
             IN  gone.exc # None => call.exc = gone.exc

(***************************************************************************)
(* LocalFileSystem.mkdir statement by statement, called by the threads of  *)
(* one process: os.umask reads and sets the mask of the whole process.     *)
(***************************************************************************)
\* The mode a new directory gets: the mode asked for, less the bits of the umask.
Masked(m, u) ==
    IF u = "0" THEN m
    ELSE IF m = OpenDirMode THEN UmaskedDirMode
    ELSE m

\* (os.makedirs if recursive else os.mkdir)(*args) under the umask u: without a
\* perm the mode is the default 0777, intermediate directories always get 0777.
create_under(f, path, p, recursive, u) ==
    LET m  == Masked(IF p # None THEN p ELSE OpenDirMode, u)
        im == Masked(OpenDirMode, u)
    IN  IF recursive THEN os_makedirs(f, path, m, im) ELSE os_mkdir(f, path, m)

\* Faulty variant of Restored: the finally clause does not put the umask back.
Restored_never(orig, p, u) == u

\* "finally: if perm is not None: os.umask(orig)": the umask after the clause.
Restored(orig, p, u) == IF p # None THEN orig ELSE u

\* The paths mkdir is called on: the real target's directory and a directory
\* at the real target's path.
MkPaths == {dirname(self), self}

\* The call, up to "if self.exists(path): return" and the default of perm.
MkdirEnter(t, path, p, recursive, silent) ==
    /\ thr[t].pc = "idle"
    /\ thr' = [thr EXCEPT ![t] =
                 [@ EXCEPT !.path = path,
                           !.perm = IF p = None THEN default_directory_perm ELSE p,
                           !.recursive = recursive,
                           !.silent = silent,
                           !.pc = IF exists(fs, path) THEN "done" ELSE "umask"]]
    /\ UNCHANGED <<fs, call, umask, walk, ses, req>>
    /\ UNCHANGED sessionVars

\* "if perm is not None: orig = os.umask(0)"
MkdirMask(t) ==
    /\ thr[t].pc = "umask"
    /\ IF thr[t].perm # None
       THEN /\ umask' = "0"
            /\ thr' = [thr EXCEPT ![t].orig = umask, ![t].pc = "create"]
       ELSE /\ umask' = umask
            /\ thr' = [thr EXCEPT ![t].pc = "create"]
    /\ UNCHANGED <<fs, call, walk, ses, req>>
    /\ UNCHANGED sessionVars

\* The creation, and "if not silent and not is_file_exists_error(e): raise".
MkdirCreate(t) ==
    /\ thr[t].pc = "create"
    /\ LET c == thr[t]
           made == create_under(fs, c.path, c.perm, c.recursive, umask)
           raised == made.exc # None /\ ~c.silent /\ ~is_file_exists_error(made.exc)
       IN  /\ fs' = made.fs
           /\ thr' = [thr EXCEPT ![t].masks = @ \cup {umask},
                                 ![t].exc = IF raised THEN made.exc ELSE None,
                                 ![t].pc = IF raised THEN "restore" ELSE "chmod"]
    /\ UNCHANGED <<call, umask, walk, ses, req>>
    /\ UNCHANGED sessionVars

\* "self.chmod(path, perm)"
MkdirChmod(t) ==
    /\ thr[t].pc = "chmod"
    /\ LET c == thr[t]
           r == chmod(fs, c.path, c.perm, TRUE)
       IN  /\ fs' = r.fs
           /\ thr' = [thr EXCEPT ![t].masks = @ \cup {umask},
                                 ![t].exc = r.exc,
                                 ![t].pc = "restore"]
    /\ UNCHANGED <<call, umask, walk, ses, req>>
    /\ UNCHANGED sessionVars

\* os.chmod raises: the path is there but the process may not change its mode.
MkdirChmodFault(t) ==
    /\ thr[t].pc = "chmod"
    /\ thr[t].perm # None
    /\ exists(fs, thr[t].path)
    /\ thr' = [thr EXCEPT ![t].masks = @ \cup {umask},
                          ![t].exc = "PermissionFailure",
                          ![t].pc = "restore"]
    /\ UNCHANGED <<fs, call, umask, walk, ses, req>>
    /\ UNCHANGED sessionVars

\* The finally clause; the failure that was raised, if any, leaves the call.
MkdirRestore(t) ==
    /\ thr[t].pc = "restore"
    /\ umask' = Restored(thr[t].orig, thr[t].perm, umask)
    /\ thr' = [thr EXCEPT ![t].pc = "done"]
    /\ UNCHANGED <<fs, call, walk, ses, req>>
    /\ UNCHANGED sessionVars

\* The perm arguments of the calls: none, or a mode the umask 022 would cut.
MkPerms == {None, OpenDirMode}

MkdirStep(t) ==
    \/ \E path \in MkPaths, p \in MkPerms, recursive \in BOOLEAN, silent \in BOOLEAN :
          MkdirEnter(t, path, p, recursive, silent)
    \/ MkdirMask(t)
    \/ MkdirCreate(t)
    \/ MkdirChmod(t)
    \/ MkdirChmodFault(t)
    \/ MkdirRestore(t)

\* One thread calls mkdir.
NextMkdir ==
    \/ \E path \in MkPaths, p \in MkPerms, recursive \in BOOLEAN, silent \in BOOLEAN :
          MkdirEnter(1, path, p, recursive, silent)
    \/ MkdirMask(1)
    \/ MkdirCreate(1)
    \/ MkdirChmod(1)
    \/ MkdirChmodFault(1)
    \/ MkdirRestore(1)

SpecMkdir == Init /\ [][NextMkdir]_vars

\* C11: in a call of mkdir by the only thread, with a perm, the umask is 0 while
\* the directory is created and while it is chmod-ed, and once the call has
\* returned or raised the umask is the one the process had before.
C11_UmaskNeutralAndRestored ==
    LET c == thr[1]
    IN  /\ (c.pc \in {"create", "chmod"} /\ c.perm # None) => umask = "0"
        /\ c.perm # None => c.masks \subseteq {"0"}
        /\ c.pc = "done" => umask = ProcessUmask

\* C11 witness: a call with a perm whose creation raised (no parent directory,
\* not recursive, not silent) has ended, the umask having been 0 at the creation.
C11_Witness ==
    /\ thr[1].pc = "done"
    /\ thr[1].perm # None
    /\ thr[1].exc = "NotFoundFailure"
    /\ thr[1].masks = {"0"}
    /\ umask = ProcessUmask

(***************************************************************************)
(* Two calls of mkdir(path, silent=True) in a row on one path.             *)
(***************************************************************************)
\* The second call, with the arguments of the first one.
MkdirAgain ==
    /\ pc = "idle"
    /\ call.op = "mkdir"
    /\ call.silent
    /\ req.op = "none"
    /\ LET r == mkdir(fs, call.path, call.perm, call.recursive, call.silent)
       IN  /\ fs' = r.fs
           /\ req' = [req EXCEPT !.op = "mkdir", !.src = call.path,
                                 !.before = fs, !.exc = r.exc]
    /\ UNCHANGED <<call, umask, thr, walk, ses>>
    /\ UNCHANGED sessionVars

NextTwice ==
    \/ \E path \in Paths \ {Root}, p \in {None, "0700"}, recursive \in BOOLEAN :
          MkdirCall(path, p, recursive, TRUE)
    \/ MkdirAgain

SpecTwice == Init /\ [][NextTwice]_vars

\* C12: of two calls mkdir(path, silent=True) in a row on one path neither raises,
\* and the second leaves the file system (the path, what is in it, its
\* permissions) as the first left it.
C12_MkdirTwiceSameState ==
    req.op = "mkdir"
        => /\ call.exc = None
           /\ req.exc = None
           /\ fs = req.before

\* C12 witness: the first call created the directory with a perm and the second
\* call was made.
C12_Witness ==
    /\ req.op = "mkdir"
    /\ ~exists(call.before, call.path)
    /\ isdir(fs, call.path)
    /\ call.perm = "0700"
    /\ fs[call.path].perm = "0700"
    /\ req.exc = None

(***************************************************************************)
(* A direct call of LocalFileSystem.copy                                   *)
(***************************************************************************)
\* Nothing is in progress: the file system is f and the real target is t.
Quiet(f, t) ==
    /\ fs = f
    /\ self = t
    /\ sameVolume = TRUE
    /\ call = [op |-> "none", path |-> Root, perm |-> None, recursive |-> FALSE,
               silent |-> FALSE, before |-> f, exc |-> None]
    /\ pc = "idle"
    /\ mode = None
    /\ is_tmp = FALSE
    /\ perm = None
    /\ dir_perm = None
    /\ tmp = NoPath
    /\ exc = None
    /\ callerExc = FALSE
    /\ fs0 = f
    /\ atExit = AbsentNode
    /\ xpos = 0
    /\ seen = {}
    /\ appended = <<>>
    /\ rewrote = FALSE
    /\ warned = FALSE
    /\ cand = NoPath
    /\ dst = NoPath
    /\ moving = FALSE
    /\ returned = FALSE
    /\ umask = ProcessUmask
    /\ thr = [t2 \in Threads |-> IdleThread]
    /\ walk = IdleWalk
    /\ ses = [s \in Sessions |-> IdleSession]
    /\ req = NoReq

\* The file system f with directories at the paths of ds.
WithDirs(f, ds) == [path \in Paths |-> IF path \in ds THEN DirNode(UmaskedDirMode) ELSE f[path]]

\* File systems for copy: some file left in the temp root, the real target a file
\* or a directory, and in that directory possibly directories named like the files.
InitCopy ==
    \E t \in Targets, d \in {"absent", "file", "readonly", "dir"},
       left \in SUBSET TmpPaths, nest \in SUBSET InsidePaths :
        /\ Cardinality(left) <= MaxLeft
        /\ nest \subseteq {q \in InsidePaths : d = "dir" /\ dirname(q) = t}
        /\ Quiet(WithDirs(InitialFS(t, d, TRUE, left), nest), t)

\* The destination shutil.copy2 writes to: "if os.path.isdir(dst): dst =
\* os.path.join(dst, os.path.basename(src))".
copy2_dst(f, src, d) == IF isdir(f, d) THEN join(d, basename(src)) ELSE d

\* shutil.copy2(src, dst): copyfile (refusing to copy a file onto itself), then
\* copystat.
copy2(f, src, d) ==
    LET real == copy2_dst(f, src, d)
        opened == copyfile_open(f, src, real)
    IN  IF real = src THEN R(f, "IOFailure")
        ELSE IF opened.exc # None THEN opened
        ELSE R(copystat([opened.fs EXCEPT ![real].data = f[src].data], src, real), None)

\* copy(src, dst, perm, dir_perm): the file system it leaves, the failure it
\* raises and the path it returns.
copy(f, src, d, p, dp) ==
    LET prep == prepare_dst_dir(f, src, d, dp)
        done == copy2(prep.fs, src, prep.dst)
        set == set_permissions(done.fs, prep.dst, p)
    IN  IF prep.exc # None THEN [fs |-> prep.fs, exc |-> prep.exc, ret |-> NoPath]
        ELSE IF done.exc # None THEN [fs |-> done.fs, exc |-> done.exc, ret |-> NoPath]
        ELSE IF set.exc # None THEN [fs |-> set.fs, exc |-> set.exc, ret |-> NoPath]
        ELSE [fs |-> set.fs, exc |-> None, ret |-> prep.dst]

\* Whether every path a copy of src to d can touch is one of Paths.
InPaths(f, src, d) ==
    LET first == IF isdir(f, d) THEN join(d, basename(src)) ELSE d
    IN  /\ first \in Paths
        /\ isdir(f, first) => join(first, basename(src)) \in Paths

CopyCall(src, d, p, dp) ==
    /\ pc = "idle"
    /\ req.op = "none"
    /\ isfile(fs, src)
    /\ InPaths(fs, src, d)
    /\ LET r == copy(fs, src, d, p, dp)
       IN  /\ fs' = r.fs
           /\ req' = [req EXCEPT !.op = "copy", !.src = src, !.dst = d,
                                 !.ret = r.ret, !.exc = r.exc, !.before = fs]
    /\ UNCHANGED <<call, umask, thr, walk, ses>>
    /\ UNCHANGED sessionVars

NextCopy ==
    \E src \in TmpPaths \cup Targets, d \in Paths \ SchemePaths,
       p \in {None, "0600"}, dp \in {None, "0700"} : CopyCall(src, d, p, dp)

SpecCopy == InitCopy /\ [][NextCopy]_vars

\* C13 (as claimed): a copy of a file src to an existing directory dst that
\* returns, returns dst joined with the basename of src; that path then is a file
\* with the content of src, and src is as it was.
C13_CopyIntoDirectory ==
    (req.op = "copy" /\ req.exc = None /\ isdir(req.before, req.dst))
        => /\ req.ret = join(req.dst, basename(req.src))
           /\ isfile(fs, req.ret)
           /\ fs[req.ret].data = req.before[req.src].data
           /\ fs[req.src] = req.before[req.src]

(***************************************************************************)
(* LocalFileSystem.walk: the generator, one iteration of its loop a step   *)
(***************************************************************************)
\* Largest max_depth argument of walk.
MaxDepth == 3

\* The file system f with files at the paths of fl.
WithFiles(f, fl) ==
    [path \in Paths |-> IF path \in fl THEN FileNode(OldData, UmaskedFileMode) ELSE f[path]]

\* The paths at and below the real target t.
Below(t) == {q \in Paths : Len(q) >= Len(t) /\ SubSeq(q, 1, Len(t)) = t}

\* Directory trees for walk: below the real target any tree of directories and
\* files (an entry only in a directory), next to it a temp root with files left.
InitWalk ==
    \E t \in Targets, hasTmp \in BOOLEAN, left \in SUBSET TmpPaths :
      \E ds \in SUBSET Below(t), fl \in SUBSET Below(t) :
        /\ ds \cap fl = {}
        /\ \A q \in (ds \cup fl) \ {t} : dirname(q) \in ds
        /\ ~hasTmp => left = {}
        /\ Cardinality(left) <= MaxLeft
        /\ Quiet(WithDirs(WithFiles(InitialFS(t, "absent", hasTmp, left), fl), ds), t)

RECURSIVE Ordered(_)
\* The elements of a set in the order the OS lists them (some fixed order).
Ordered(S) ==
    IF S = {} THEN <<>>
    ELSE LET x == CHOOSE y \in S : TRUE IN <<x>> \o Ordered(S \ {x})

\* os.listdir(path): the names in the directory.
listdir(f, path) == Ordered({basename(q) : q \in children(f, path)})

\* Faulty variant of TooDeep: max_depth is not looked at.
TooDeep_never(max_depth, depth) == FALSE

\* "if max_depth >= 0 and depth > max_depth: continue"
TooDeep(max_depth, depth) == max_depth >= 0 /\ depth > max_depth

\* "search_dirs = [(self._unscheme(path), 0)]"
WalkCall(path, max_depth) ==
    /\ pc = "idle"
    /\ walk.pc = "idle"
    /\ walk' = [walk EXCEPT !.pc = "loop", !.path = path, !.max_depth = max_depth,
                            !.search_dirs = <<[dir |-> path, depth |-> 0]>>]
    /\ UNCHANGED <<fs, call, umask, thr, ses, req>>
    /\ UNCHANGED sessionVars

\* One iteration of "while search_dirs": the head of the queue is taken; when it
\* is not too deep its entry is yielded and its directories are queued.
WalkIterate ==
    /\ walk.pc = "loop"
    /\ walk.search_dirs # <<>>
    /\ LET search_dir == Head(walk.search_dirs).dir
           depth == Head(walk.search_dirs).depth
           rest == Tail(walk.search_dirs)
           elems == listdir(fs, search_dir)
           dirs == SelectSeq(elems, LAMBDA e : isdir(fs, join(search_dir, e)))
           files == SelectSeq(elems, LAMBDA e : ~isdir(fs, join(search_dir, e)))
       IN  IF TooDeep(walk.max_depth, depth)
           THEN walk' = [walk EXCEPT !.search_dirs = rest]
           ELSE IF ~isdir(fs, search_dir)
           THEN walk' = [walk EXCEPT !.pc = "raised", !.search_dirs = rest]
           ELSE walk' = [walk EXCEPT
                    !.out = Append(@, [dir |-> search_dir, dirs |-> dirs,
                                       files |-> files, depth |-> depth]),
                    !.search_dirs = rest \o [i \in 1..Len(dirs) |->
                                       [dir |-> join(search_dir, dirs[i]),
                                        depth |-> depth + 1]]]
    /\ UNCHANGED <<fs, call, umask, thr, ses, req>>
    /\ UNCHANGED sessionVars

\* The queue is empty: the generator is exhausted.
WalkEnd ==
    /\ walk.pc = "loop"
    /\ walk.search_dirs = <<>>
    /\ walk' = [walk EXCEPT !.pc = "done"]
    /\ UNCHANGED <<fs, call, umask, thr, ses, req>>
    /\ UNCHANGED sessionVars

NextWalk ==
    \/ \E path \in {DataDir, self}, max_depth \in -1..MaxDepth : WalkCall(path, max_depth)
    \/ WalkIterate
    \/ WalkEnd

SpecWalk == InitWalk /\ [][NextWalk]_vars

\* Depth of the path q below the directory walk was called on.
DepthBelow(q) == Len(q) - Len(walk.path)

\* The directories at and below the directory walk was called on.
DirsBelow ==
    {q \in Paths : /\ Len(q) >= Len(walk.path)
                   /\ SubSeq(q, 1, Len(walk.path)) = walk.path
                   /\ isdir(fs, q)}

\* The directories walk has to yield an entry for.
DirsToYield ==
    {q \in DirsBelow : walk.max_depth < 0 \/ DepthBelow(q) <= walk.max_depth}

\* The exhausted walk yielded one entry for each directory of DirsToYield and for
\* nothing else, level by level, each entry with the depth of its directory.
YieldsDirsToDepth ==
    /\ {walk.out[i].dir : i \in 1..Len(walk.out)} = DirsToYield
    /\ Len(walk.out) = Cardinality(DirsToYield)
    /\ \A i \in 1..Len(walk.out) : walk.out[i].depth = DepthBelow(walk.out[i].dir)
    /\ \A i, j \in 1..Len(walk.out) : i <= j => walk.out[i].depth <= walk.out[j].depth

\* C14 (as claimed): a walk with max_depth d >= 0 of a directory yields an entry
\* for exactly the directories of depth at most d, each once, and no entry shows
\* anything deeper than d: the entries of depth d list no names.
C14_WalkShowsNothingDeeper ==
    (walk.pc = "done" /\ walk.max_depth >= 0 /\ isdir(fs, walk.path))
        => /\ YieldsDirsToDepth
           /\ \A i \in 1..Len(walk.out) :
                 walk.out[i].depth = walk.max_depth
                     => walk.out[i].dirs = <<>> /\ walk.out[i].files = <<>>

\* C14 (amended): a walk of a directory yields an entry for exactly the
\* directories of depth at most max_depth (all of them when max_depth < 0), each
\* once and level by level; every entry lists the names in its directory, so the
\* entries of depth d show the names of depth d + 1.
C14_WalkYieldsDirsToDepth ==
    (walk.pc = "done" /\ isdir(fs, walk.path))
        => /\ YieldsDirsToDepth
           /\ \A i \in 1..Len(walk.out) :
                 LET e == walk.out[i]
                 IN  /\ {join(e.dir, e.dirs[k]) : k \in 1..Len(e.dirs)}
                            = {q \in children(fs, e.dir) : isdir(fs, q)}
                     /\ {join(e.dir, e.files[k]) : k \in 1..Len(e.files)}
                            = {q \in children(fs, e.dir) : ~isdir(fs, q)}

\* C14 witness: a tree of depth 3 was walked with max_depth 1; the entries are
\* those of the root and of its directory, which lists a grandchild of the root.
C14_Witness ==
    /\ walk.pc = "done"
    /\ walk.max_depth = 1
    /\ \E q \in Paths : exists(fs, q) /\ q \in Below(walk.path) /\ DepthBelow(q) = 3
    /\ Len(walk.out) = 2
    /\ walk.out[1].dir = walk.path
    /\ walk.out[2].dirs # <<>>

(***************************************************************************)
(* Path arguments with a scheme: raw = [scheme, path], "" for no scheme    *)
(***************************************************************************)
Raw(scheme, path) == [scheme |-> scheme, path |-> path]

\* law.target.file.get_scheme: the word in front of "://", if any.
get_scheme(raw) == raw.scheme

\* law.target.file.remove_scheme: the path without "scheme://".
remove_scheme(raw) == Raw("", raw.path)

unscheme(raw) == IF get_scheme(raw) = "file" THEN remove_scheme(raw) ELSE raw

\* The path the OS resolves a string to: one that still has "scheme://" in front
\* is a relative path whose first name is "scheme:".
OsPath(raw) ==
    IF raw.scheme = "" THEN raw.path
    ELSE <<Name(raw.scheme \o ":", "")>> \o raw.path

Schemes == {"", "file", "http"}

\* exists(path) with a raw path
SchemeExists(raw) ==
    /\ pc = "idle"
    /\ req.op = "none"
    /\ OsPath(unscheme(raw)) \in Paths
    /\ req' = [req EXCEPT !.op = "exists", !.scheme = raw.scheme, !.src = raw.path,
                          !.value = exists(fs, OsPath(unscheme(raw))),
                          !.exc = None, !.before = fs]
    /\ UNCHANGED <<fs, call, umask, thr, walk, ses>>
    /\ UNCHANGED sessionVars

\* mkdir(path, perm, recursive) with a raw path
SchemeMkdir(raw, p, recursive) ==
    /\ pc = "idle"
    /\ req.op = "none"
    /\ OsPath(unscheme(raw)) \in Paths
    /\ LET r == mkdir(fs, OsPath(unscheme(raw)), p, recursive, TRUE)
       IN  /\ fs' = r.fs
           /\ req' = [req EXCEPT !.op = "mkdir_raw", !.scheme = raw.scheme,
                                 !.src = raw.path, !.exc = r.exc, !.before = fs]
           /\ call' = [call EXCEPT !.perm = p, !.recursive = recursive]
    /\ UNCHANGED <<umask, thr, walk, ses>>
    /\ UNCHANGED sessionVars

NextScheme ==
    \/ \E scheme \in Schemes, path \in {DataDir} \cup Targets :
          SchemeExists(Raw(scheme, path))
    \/ \E scheme \in Schemes, path \in {DataDir} \cup Targets,
          p \in {None, "0700"}, recursive \in BOOLEAN :
          SchemeMkdir(Raw(scheme, path), p, recursive)

SpecScheme == Init /\ [][NextScheme]_vars

\* C15 (as claimed): exists and mkdir on "file://path" do what they do on path,
\* and on a path with another scheme they raise and leave the file system alone.
C15_SchemeStrippedOrRefused ==
    /\ (req.op = "exists" /\ req.scheme = "file")
          => req.value = exists(req.before, req.src) /\ req.exc = None
    /\ (req.op = "mkdir_raw" /\ req.scheme = "file")
          => fs = mkdir(req.before, req.src, call.perm, call.recursive, TRUE).fs
    /\ (req.op \in {"exists", "mkdir_raw"} /\ req.scheme \notin {"", "file"})
          => req.exc = "UnsupportedSchemeFailure" /\ fs = req.before

(***************************************************************************)
(* Further properties of the localize session (checked under Spec)         *)
(***************************************************************************)
\* The positions inside fs.move(tmp.path, self.path, perm, dir_perm).
MovePcs ==
    {"move_prepare", "move_rename", "move_open", "move_data", "move_unlink",
     "move_chmod"}

\* What is visible at the real target's path: the node there (existence, content,
\* permissions) and the directories above it.
Visible(f) == <<f[self], f[dirname(self)], f[Root]>>

\* C16: in a write- or append-mode session with temp staging, a step that is not
\* part of the final move (construction of the temp target, the copy in append
\* mode, the caller's writes, the cleanup) leaves the real target's path and the
\* directories above it as they are.
C16_OnlyMoveChangesTarget ==
    [][(mode \in {"w", "a"} /\ is_tmp /\ pc \notin MovePcs)
          => Visible(fs') = Visible(fs)]_vars

\* C16 witness: such a session has ended, the caller having written to the temp
\* target and the move having put new content at the real target's path.
C16_Witness ==
    /\ Succeeded /\ mode \in {"w", "a"} /\ is_tmp
    /\ moving
    /\ appended # <<>>
    /\ isfile(fs, self)
    /\ fs[self] # fs0[self]
    /\ ~exists(fs, tmp)

\* C17: a write- or append-mode session with temp staging whose caller returned
\* normally without the temp target being there has skipped the move with a
\* warning, has exited without a failure and has left the real target's path,
\* absent or with its content, as it was at the start.
C17_NoTempNoMove ==
    (pc = "done" /\ mode \in {"w", "a"} /\ is_tmp /\ returned /\ atExit.kind = "none")
        => /\ warned
           /\ ~moving
           /\ exc = None
           /\ View(fs[self]) = View(pre)

\* C17 witness: the caller of a write-mode session on an existing file returned
\* without writing anything, and the session has ended.
C17_Witness ==
    /\ pc = "done" /\ mode = "w" /\ is_tmp /\ returned /\ atExit.kind = "none"
    /\ isfile(fs0, self)
    /\ warned
    /\ fs[self] = fs0[self]

\* C18 (as claimed): in a write- or append-mode session without temp staging the
\* directory of the real target is there while the real target is yielded (with
\* dir_perm when the session created it), the real target itself is yielded and
\* no temp target is built, and perm is put on the real target when the caller
\* returned normally and the target is there, and not when the caller raised.
C18_InPlaceSession ==
    (mode \in {"w", "a"} /\ ~is_tmp)
        => /\ pc = "body" => isdir(fs, dirname(self))
           /\ (pc = "body" /\ ~exists(fs0, dirname(self)) /\ dir_perm # None)
                 => fs[dirname(self)].perm = dir_perm
           /\ pc = "body" => yielded = self
           /\ tmp = NoPath
           /\ (pc = "done" /\ returned /\ exists(fs, self) /\ perm # None)
                 => fs[self].perm = perm
           /\ (pc = "done" /\ callerExc /\ exists(fs, self) /\ perm # None)
                 => fs[self].perm # perm

(***************************************************************************)
(* Two threads of the process call mkdir                                   *)
(***************************************************************************)
\* Before the calls: the directory of the real target is missing, or it is there,
\* writable or not, with or without something at the real target's path.
InitMkdir2 ==
    \E t \in Targets, d \in {"noparent", "absent", "readonly", "file"} :
        Quiet(InitialFS(t, d, FALSE, {}), t)

NextMkdir2 == \E t \in Threads : MkdirStep(t)

SpecMkdir2 == InitMkdir2 /\ [][NextMkdir2]_vars

\* C19 (as claimed): once the mkdir calls of both threads, each with a perm, have
\* returned, the umask of the process is the one it had before the calls.
C19_UmaskRestoredAfterBoth ==
    (\A t \in Threads : thr[t].pc = "done" /\ thr[t].perm # None)
        => umask = ProcessUmask

(***************************************************************************)
(* Two write-mode localize sessions with temp staging, open side by side   *)
(* and sharing the temp root.                                              *)
(***************************************************************************)
\* Before the sessions: the temp root is there, with or without a file left in it.
InitSessions ==
    \E t \in Targets, d \in {"absent", "file"}, left \in SUBSET TmpPaths :
        /\ Cardinality(left) <= MaxLeft
        /\ Quiet(InitialFS(t, d, TRUE, left), t)

\* What the caller of session s writes.
SesData(s) == IF s = 1 THEN <<"b">> ELSE <<"c">>

\* shutil.move(src, dst): os.rename, else copy2 and os.unlink.
shutil_move(f, src, d, sameVol) ==
    IF CanRename(f, src, d, sameVol) THEN R(os_rename(f, src, d), None)
    ELSE LET copied == copy2(f, src, d)
         IN  IF copied.exc # None THEN copied ELSE os_remove(copied.fs, src)

\* move(src, dst, perm, dir_perm): the file system it leaves and the failure it raises.
move(f, src, d, p, dp, sameVol) ==
    LET prep == prepare_dst_dir(f, src, d, dp)
        done == shutil_move(prep.fs, src, prep.dst, sameVol)
    IN  IF prep.exc # None THEN R(prep.fs, prep.exc)
        ELSE IF done.exc # None THEN done
        ELSE set_permissions(done.fs, prep.dst, p)

\* localize(mode="w") on the real target t: the temp root is there.
SesOpen(s, t) ==
    /\ ses[s].pc = "idle"
    /\ ses' = [ses EXCEPT ![s].pc = "pick", ![s].self = t]
    /\ UNCHANGED <<fs, call, umask, thr, walk, req>>
    /\ UNCHANGED sessionVars

\* One random candidate name in the temp root.
SesDraw(s, stem) ==
    /\ ses[s].pc = "pick"
    /\ ses' = [ses EXCEPT ![s].pc = "probe", ![s].cand = join(tmp_dir, Name(stem, ""))]
    /\ UNCHANGED <<fs, call, umask, thr, walk, req>>
    /\ UNCHANGED sessionVars

\* "if not fs.exists(path): break", then the extension is appended; the temp
\* target is yielded.
SesProbe(s) ==
    /\ ses[s].pc = "probe"
    /\ IF exists(fs, ses[s].cand)
       THEN ses' = [ses EXCEPT ![s].pc = "pick"]
       ELSE ses' = [ses EXCEPT ![s].pc = "body",
                               ![s].tmp = NewTmpPath(ses[s].cand, ses[s].self)]
    /\ UNCHANGED <<fs, call, umask, thr, walk, req>>
    /\ UNCHANGED sessionVars

\* The caller's write to the yielded temp target: open(path, "w") and the data.
SesWrite(s) ==
    /\ ses[s].pc = "body"
    /\ ~ses[s].wrote
    /\ fs' = [fs EXCEPT ![ses[s].tmp] =
                 IF isfile(fs, ses[s].tmp) THEN [@ EXCEPT !.data = SesData(s)]
                 ELSE FileNode(SesData(s), UmaskedFileMode)]
    /\ ses' = [ses EXCEPT ![s].wrote = TRUE]
    /\ UNCHANGED <<call, umask, thr, walk, req>>
    /\ UNCHANGED sessionVars

\* The caller's block returns.
SesReturn(s) ==
    /\ ses[s].pc = "body"
    /\ ses' = [ses EXCEPT ![s].pc = "move"]
    /\ UNCHANGED <<fs, call, umask, thr, walk, req>>
    /\ UNCHANGED sessionVars

\* "if tmp.exists(): tmp.move_to_local(self, ...)"; a failure of the move goes on
\* to the finally clause.
SesMove(s) ==
    /\ ses[s].pc = "move"
    /\ fs' = IF exists(fs, ses[s].tmp)
             THEN move(fs, ses[s].tmp, ses[s].self, None, None, sameVolume).fs
             ELSE fs
    /\ ses' = [ses EXCEPT ![s].pc = "cleanup"]
    /\ UNCHANGED <<call, umask, thr, walk, req>>
    /\ UNCHANGED sessionVars

\* "finally: tmp.remove()"
SesCleanup(s) ==
    /\ ses[s].pc = "cleanup"
    /\ fs' = remove(fs, ses[s].tmp, TRUE, TRUE).fs
    /\ ses' = [ses EXCEPT ![s].pc = "done"]
    /\ UNCHANGED <<call, umask, thr, walk, req>>
    /\ UNCHANGED sessionVars

NextSessions ==
    \E s \in Sessions :
        \/ \E t \in Targets : SesOpen(s, t)
        \/ \E stem \in TmpStems : SesDraw(s, stem)
        \/ SesProbe(s)
        \/ SesWrite(s)
        \/ SesReturn(s)
        \/ SesMove(s)
        \/ SesCleanup(s)

SpecSessions == InitSessions /\ [][NextSessions]_vars

\* Session s holds its temp path: the temp target was built, the session is not over.
Holds(s) == ses[s].pc \in {"body", "move", "cleanup"}

\* C20 (as claimed): two sessions that are open at the same time never hold the
\* same temp path, and so a session that wrote to its temp target and is about
\* to move it finds its own data there.
C20_SessionsHoldDistinctTemps ==
    /\ (Holds(1) /\ Holds(2)) => ses[1].tmp # ses[2].tmp
    /\ \A s \in Sessions :
          (ses[s].pc = "move" /\ ses[s].wrote)
              => isfile(fs, ses[s].tmp) /\ fs[ses[s].tmp].data = SesData(s)

====
